---------------------------- MODULE Spec2Model ----------------------------
(***************************************************************************)
(* Medical equipment maintenance management system                         *)
(* (src/medical_maintenance_system.py).                                    *)
(*                                                                         *)
(* The state is the session's DataFrame (st.session_state.df), the backing *)
(* spreadsheet file, the wall clock read by pd.Timestamp.now(), the widget  *)
(* values of the form submitted last, the last st.success / st.error       *)
(* message, the figures drawn by the last render, the number of forms     *)
(* submitted so far, what st.cache_data holds for load_data, and whether   *)
(* the session holds a DataFrame ('df' in st.session_state).               *)
(*                                                                         *)
(* Representation                                                          *)
(*   - A timestamp is an integer number of ticks; a day has TicksPerDay    *)
(*     ticks; a date (st.date_input) is a timestamp at midnight.           *)
(*     pd.NaT is the integer NaT, as pandas stores it (the smallest int).  *)
(*   - A string that the code takes apart (Asset ID, Center_Code) is a     *)
(*     sequence of one-character strings.                                  *)
(*   - Arabic labels are written in English: "Overdue" for the status      *)
(*     returned at line 140, "Working" for the device status of line 117.  *)
(*   - A row keeps the columns some decision of the code reads; the free   *)
(*     text columns Manufacturer, Model and Serial No are left out.        *)
(***************************************************************************)
EXTENDS Integers, Sequences, FiniteSets, TLC

VARIABLES df, file, now, form, msg, view, ops, cache, loaded

vars == <<df, file, now, form, msg, view, ops, cache, loaded>>

----------------------------------------------------------------------------
(* Bounds of the model *)

\* ticks in one day (the clock's resolution)
TicksPerDay == 2
\* the clock runs from tick 0 to tick MaxNow
MaxNow == 1
\* rows the session's DataFrame may grow to
MaxRecords == 4
\* how many days before day 0 the earliest date a form offers lies
MaxPast == 8
\* note chunks a Notes cell may grow to
MaxNotes == 2
\* forms submitted and sessions opened, all sessions together
MaxOps == 3

----------------------------------------------------------------------------
(* Program constants *)

MinInterval == 7
MaxInterval == 365
DefaultInterval == 90
UrgentDays == 7
UpcomingDays == 30
IdWidth == 3

\* pd.NaT
NaT == -1000000
\* a missing string cell (NaN)
NaN == "NaN"

isna(x) == x = NaT
notna(x) == x # NaT

\* timedelta(days=n)
timedelta(n) == n * TicksPerDay
\* pd.Timestamp(date): midnight of day d
Timestamp(d) == d * TicksPerDay
\* the date a timestamp falls on
DateOf(t) == t \div TicksPerDay

\* slips: the days rounded towards zero; the days rounded up
TimedeltaDaysTrunc(td) == IF td >= 0 THEN td \div TicksPerDay ELSE -((-td) \div TicksPerDay)
TimedeltaDaysCeil(td) == -((-td) \div TicksPerDay)

\* Timedelta.days: the whole days of a difference, rounded towards minus
\* infinity (Python normalises a negative timedelta to negative days plus a
\* non-negative remainder)
TimedeltaDays(td) == td \div TicksPerDay

\* comparisons of a datetime column with a timestamp: False on NaT
Lt(a, b) == notna(a) /\ notna(b) /\ a < b
Ge(a, b) == notna(a) /\ notna(b) /\ a >= b
Le(a, b) == notna(a) /\ notna(b) /\ a <= b

----------------------------------------------------------------------------
(* Strings that the code takes apart *)

Digits == <<"0", "1", "2", "3", "4", "5", "6", "7", "8", "9">>

IsDigit(c) == \E i \in 1..10 : Digits[i] = c
DigitValue(c) == (CHOOSE i \in 1..10 : Digits[i] = c) - 1

RECURSIVE SplitAcc(_, _, _)
SplitAcc(s, cur, acc) ==
    IF s = <<>> THEN Append(acc, cur)
    ELSE IF Head(s) = "-" THEN SplitAcc(Tail(s), <<>>, Append(acc, cur))
    ELSE SplitAcc(Tail(s), Append(cur, Head(s)), acc)

\* str.split('-')
split(s) == SplitAcc(s, <<>>, <<>>)

RECURSIVE join(_)
\* '-'.join(parts)
join(parts) ==
    IF parts = <<>> THEN <<>>
    ELSE IF Len(parts) = 1 THEN parts[1]
    ELSE parts[1] \o <<"-">> \o join(Tail(parts))

\* parts[0:2]
FirstTwo(parts) == SubSeq(parts, 1, IF Len(parts) < 2 THEN Len(parts) ELSE 2)

\* whether int(s) succeeds: s is a non-empty run of decimal digits
IsInt(s) == s # <<>> /\ \A i \in 1..Len(s) : IsDigit(s[i])

RECURSIVE IntOf(_)
\* int(s) for a run of decimal digits
IntOf(s) ==
    IF s = <<>> THEN 0
    ELSE 10 * IntOf(SubSeq(s, 1, Len(s) - 1)) + DigitValue(s[Len(s)])

RECURSIVE Decimal(_)
\* str(n) for n >= 0
Decimal(n) ==
    IF n < 10 THEN <<Digits[n + 1]>>
    ELSE Append(Decimal(n \div 10), Digits[(n % 10) + 1])

RECURSIVE PadLeft(_, _)
PadLeft(s, w) == IF Len(s) >= w THEN s ELSE PadLeft(<<"0">> \o s, w)

\* a slip: the number written without its leading zeros
FormatUnpadded(n) == Decimal(n)

\* f"{n:03d}"
Format03d(n) == PadLeft(Decimal(n), IdWidth)

----------------------------------------------------------------------------
(* Static reference data: the first two entries of CENTERS *)

KHL_PHC == <<"K", "H", "L", "-", "P", "H", "C">>
GQH_PHC == <<"G", "Q", "H", "-", "P", "H", "C">>

CENTERS == { [name |-> "Al-Khalawiya", code |-> KHL_PHC],
             [name |-> "Jabal Al-Qahr", code |-> GQH_PHC] }

CenterNames == { c.name : c \in CENTERS }

\* CENTERS_DICT: code -> name (NaN for a code outside the table)
CENTERS_DICT(code) ==
    IF \E c \in CENTERS : c.code = code
    THEN (CHOOSE c \in CENTERS : c.code = code).name
    ELSE NaN

\* CENTERS_DICT_REV: name -> code
CENTERS_DICT_REV(name) == (CHOOSE c \in CENTERS : c.name = name).code

DeviceStatuses == {"Working", "Broken", "UnderMaintenance"}
Priorities == {"High", "Medium", "Low"}

\* df['Asset ID'].str.split('-').str[0:2].str.join('-')
CenterCodeOf(asset_id) == join(FirstTwo(split(asset_id)))

----------------------------------------------------------------------------
(* The maintenance status evaluator *)

\* a slip: the missing date not tested first
calculate_maintenance_status_unguarded(row, today) ==
    LET days_until == TimedeltaDays(row.NextMaintenance - today)
    IN IF days_until < 0 THEN <<"Overdue", "red">>
       ELSE IF days_until <= UrgentDays THEN <<"Urgent", "orange">>
       ELSE IF days_until <= UpcomingDays THEN <<"Upcoming", "yellow">>
       ELSE <<"Good", "green">>

calculate_maintenance_status(row, today) ==
    IF isna(row.NextMaintenance) THEN <<"Undetermined", "white">>
    ELSE LET days_until == TimedeltaDays(row.NextMaintenance - today)
         IN IF days_until < 0 THEN <<"Overdue", "red">>
            ELSE IF days_until <= UrgentDays THEN <<"Urgent", "orange">>
            ELSE IF days_until <= UpcomingDays THEN <<"Upcoming", "yellow">>
            ELSE <<"Good", "green">>

----------------------------------------------------------------------------
(* The spreadsheet file and the DataFrame *)

BaseColumns == {"Asset ID", "Scientific Department", "Scientific Equipment Name",
                "Installation Date"}
MaintenanceColumns == {"Last_Maintenance", "Next_Maintenance",
                       "Maintenance_Interval_Days", "Device_Status", "Priority",
                       "Notes"}

\* one row of the file as it was first delivered (no maintenance columns)
BaseRow(asset_id, department, equipment_name, installation_date) ==
    [AssetID |-> asset_id, Department |-> department,
     EquipmentName |-> equipment_name, InstallationDate |-> installation_date]

\* load_data: the DataFrame read from a file, with the derived center
\* columns and the defaults of the columns the file lacks
load_data(f) ==
    [i \in 1..Len(f.rows) |->
        LET r == f.rows[i]
            code == CenterCodeOf(r.AssetID)
        IN [AssetID |-> r.AssetID,
            CenterCode |-> code,
            CenterName |-> CENTERS_DICT(code),
            Department |-> r.Department,
            EquipmentName |-> r.EquipmentName,
            InstallationDate |-> r.InstallationDate,
            LastMaintenance |->
                IF "Last_Maintenance" \in f.cols THEN r.LastMaintenance ELSE NaT,
            NextMaintenance |->
                IF "Next_Maintenance" \in f.cols THEN r.NextMaintenance ELSE NaT,
            IntervalDays |->
                IF "Maintenance_Interval_Days" \in f.cols THEN r.IntervalDays
                ELSE DefaultInterval,
            DeviceStatus |->
                IF "Device_Status" \in f.cols THEN r.DeviceStatus ELSE "Working",
            Priority |-> IF "Priority" \in f.cols THEN r.Priority ELSE "Medium",
            Notes |-> IF "Notes" \in f.cols THEN r.Notes ELSE <<>>]]

\* df.drop(columns=['Center_Code', 'Center_Name'])
DropCenterColumns(r) ==
    [AssetID |-> r.AssetID, Department |-> r.Department,
     EquipmentName |-> r.EquipmentName, InstallationDate |-> r.InstallationDate,
     LastMaintenance |-> r.LastMaintenance, NextMaintenance |-> r.NextMaintenance,
     IntervalDays |-> r.IntervalDays, DeviceStatus |-> r.DeviceStatus,
     Priority |-> r.Priority, Notes |-> r.Notes]

\* a slip: the workbook emptied before the write that then fails
save_data_truncating(d, old, ok) ==
    IF ok THEN [cols |-> BaseColumns \cup MaintenanceColumns,
                rows |-> [i \in 1..Len(d) |-> DropCenterColumns(d[i])]]
    ELSE [cols |-> old.cols, rows |-> <<>>]

\* save_data: what the file holds afterwards; to_excel either rewrites the
\* whole file (ok) or raises and leaves it as it was
save_data(d, old, ok) ==
    IF ok THEN [cols |-> BaseColumns \cup MaintenanceColumns,
                rows |-> [i \in 1..Len(d) |-> DropCenterColumns(d[i])]]
    ELSE old

\* df[cond]: the rows satisfying Keep, in order
SelectRows(d, Keep(_)) ==
    LET idx == {i \in 1..Len(d) : Keep(d[i])}
        nth(k) == CHOOSE i \in idx : Cardinality({j \in idx : j < i}) = k - 1
    IN [k \in 1..Cardinality(idx) |-> d[nth(k)]]

\* len(df[cond])
CountRows(d, Keep(_)) == Cardinality({i \in 1..Len(d) : Keep(d[i])})

\* df[col].dropna().unique()
UniqueCenterNames(d) == {d[i].CenterName : i \in 1..Len(d)} \ {NaN}
UniqueDepartments(d) == {d[i].Department : i \in 1..Len(d)} \ {NaN}
UniqueEquipmentNames(d) == {d[i].EquipmentName : i \in 1..Len(d)} \ {NaN}
AssetIds(d) == {d[i].AssetID : i \in 1..Len(d)}

\* df[df['Asset ID'] == asset_id].index[0]
IndexOf(d, asset_id) == CHOOSE i \in 1..Len(d) :
    /\ d[i].AssetID = asset_id
    /\ \A j \in 1..(i - 1) : d[j].AssetID # asset_id

----------------------------------------------------------------------------
(* Loading: load_data behind st.cache_data, and main's lines 216-224 *)

\* whether the body of load_data gets through: read_excel and the
\* df['Asset ID'] of line 95 raise on a workbook without that column
Readable(f) == "Asset ID" \in f.cols

\* what load_data returns: the DataFrame, or None after the except of
\* lines 126-128
LoadResult(f) ==
    IF Readable(f) THEN [ok |-> TRUE, df |-> load_data(f)]
    ELSE [ok |-> FALSE, df |-> <<>>]

\* st.cache_data: nothing memoised yet; the value memoised for the path
NoCache == [set |-> FALSE, value |-> [ok |-> FALSE, df |-> <<>>]]
Cached(value) == [set |-> TRUE, value |-> value]

\* load_data(file_path) as main calls it: the memoised value when the path
\* was loaded before (whatever it returned then), else the body's result
CachedLoad(c, f) == IF c.set THEN c.value ELSE LoadResult(f)

----------------------------------------------------------------------------
(* Forms, messages and renders *)

\* the last st.success / st.error shown; asset is the id an add reports
Message(level, text, asset) == [level |-> level, text |-> text, asset |-> asset]
NoMessage == Message("none", "none", <<>>)
NoForm == [name |-> "none"]
NoView == [screen |-> "none"]

\* the value a selectbox over `options` returns: one option, or None (here
\* the empty string) when there is none
SelectboxValues(options) == IF options = {} THEN {""} ELSE options

\* one more form submitted (or button pressed) in this session
Submit == ops < MaxOps /\ ops' = ops + 1

\* the row the edit form and the maintenance form are opened on
Device(asset_id) == df[IndexOf(df, asset_id)]

----------------------------------------------------------------------------
(* Device management: add (lines 436-512) *)

Max(a, b) == IF a >= b THEN a ELSE b

\* df[df['Center_Code'] == center_code]['Asset ID'].tolist()
existing_ids(d, center_code) ==
    LET rows == SelectRows(d, LAMBDA r : r.CenterCode = center_code)
    IN [i \in 1..Len(rows) |-> rows[i].AssetID]

\* asset_id.split('-')[-1]
Suffix(asset_id) == LET parts == split(asset_id) IN parts[Len(parts)]

RECURSIVE MaxNumLoopReset(_, _)
\* a slip: a suffix that is no number puts max_num back to 0
MaxNumLoopReset(ids, max_num) ==
    IF ids = <<>> THEN max_num
    ELSE MaxNumLoopReset(Tail(ids),
                         IF IsInt(Suffix(Head(ids)))
                         THEN Max(max_num, IntOf(Suffix(Head(ids))))
                         ELSE 0)

RECURSIVE MaxNumLoop(_, _)
\* the loop of lines 475-480, from max_num on
MaxNumLoop(ids, max_num) ==
    IF ids = <<>> THEN max_num
    ELSE MaxNumLoop(Tail(ids),
                    IF IsInt(Suffix(Head(ids)))
                    THEN Max(max_num, IntOf(Suffix(Head(ids))))
                    ELSE max_num)

\* a slip: the next number taken from how many ids the center has
NewAssetIdByCount(d, center_code) ==
    center_code \o <<"-">> \o Format03d(Len(existing_ids(d, center_code)) + 1)

\* f"{center_code}-{max_num+1:03d}"
NewAssetId(d, center_code) ==
    center_code \o <<"-">> \o Format03d(MaxNumLoop(existing_ids(d, center_code), 0) + 1)

\* a slip: the first due date set to the installation date itself
new_row_no_interval(new_asset_id, center_code, center, department, equipment_name, installation_date, device_status, maintenance_interval, priority, notes) ==
    [AssetID |-> new_asset_id, CenterCode |-> center_code, CenterName |-> center,
     Department |-> department, EquipmentName |-> equipment_name,
     InstallationDate |-> Timestamp(installation_date), LastMaintenance |-> NaT,
     NextMaintenance |-> Timestamp(installation_date),
     IntervalDays |-> maintenance_interval, DeviceStatus |-> device_status,
     Priority |-> priority, Notes |-> notes]

\* a slip: the installation taken for a first maintenance
new_row_maintained_at_installation(new_asset_id, center_code, center, department, equipment_name, installation_date, device_status, maintenance_interval, priority, notes) ==
    [AssetID |-> new_asset_id, CenterCode |-> center_code, CenterName |-> center,
     Department |-> department, EquipmentName |-> equipment_name,
     InstallationDate |-> Timestamp(installation_date),
     LastMaintenance |-> Timestamp(installation_date),
     NextMaintenance |-> Timestamp(installation_date) + timedelta(maintenance_interval),
     IntervalDays |-> maintenance_interval, DeviceStatus |-> device_status,
     Priority |-> priority, Notes |-> notes]

new_row(new_asset_id, center_code, center, department, equipment_name, installation_date, device_status, maintenance_interval, priority, notes) ==
    [AssetID |-> new_asset_id,
     CenterCode |-> center_code,
     CenterName |-> center,
     Department |-> department,
     EquipmentName |-> equipment_name,
     InstallationDate |-> Timestamp(installation_date),
     LastMaintenance |-> NaT,
     NextMaintenance |-> Timestamp(installation_date) + timedelta(maintenance_interval),
     IntervalDays |-> maintenance_interval,
     DeviceStatus |-> device_status,
     Priority |-> priority,
     Notes |-> notes]

\* a slip: the equipment name left out of the required-field test
AddDeviceNameOptional(center, equipment_name, department, installation_date, device_status, maintenance_interval, priority, notes, save_ok) ==
    /\ Submit
    /\ Len(df) < MaxRecords
    /\ center \in SelectboxValues(UniqueCenterNames(df))
    /\ department \in SelectboxValues(UniqueDepartments(df))
    /\ form' = [name |-> "add_device_form", center |-> center,
                equipment_name |-> equipment_name, department |-> department,
                installation_date |-> installation_date,
                device_status |-> device_status,
                maintenance_interval |-> maintenance_interval,
                priority |-> priority, notes |-> notes]
    /\ IF center # "" /\ department # ""
       THEN LET center_code == CENTERS_DICT_REV(center)
                new_asset_id == NewAssetId(df, center_code)
                new_df == Append(df, new_row(new_asset_id, center_code, center,
                                             department, equipment_name,
                                             installation_date, device_status,
                                             maintenance_interval, priority, notes))
            IN /\ df' = new_df
               /\ file' = save_data(new_df, file, save_ok)
               /\ msg' = IF save_ok
                         THEN Message("success", "device added", new_asset_id)
                         ELSE Message("error", "saving the data failed", <<>>)
       ELSE /\ msg' = Message("error", "fill in all required fields", <<>>)
            /\ UNCHANGED <<df, file>>
    /\ UNCHANGED <<now, view, cache, loaded>>

AddDevice(center, equipment_name, department, installation_date, device_status, maintenance_interval, priority, notes, save_ok) ==
    /\ Submit
    /\ Len(df) < MaxRecords
    /\ center \in SelectboxValues(UniqueCenterNames(df))
    /\ department \in SelectboxValues(UniqueDepartments(df))
    /\ form' = [name |-> "add_device_form", center |-> center,
                equipment_name |-> equipment_name, department |-> department,
                installation_date |-> installation_date,
                device_status |-> device_status,
                maintenance_interval |-> maintenance_interval,
                priority |-> priority, notes |-> notes]
    /\ IF equipment_name # "" /\ center # "" /\ department # ""
       THEN LET center_code == CENTERS_DICT_REV(center)
                new_asset_id == NewAssetId(df, center_code)
                new_df == Append(df, new_row(new_asset_id, center_code, center,
                                             department, equipment_name,
                                             installation_date, device_status,
                                             maintenance_interval, priority, notes))
            IN /\ df' = new_df
               /\ file' = save_data(new_df, file, save_ok)
               /\ msg' = IF save_ok
                         THEN Message("success", "device added", new_asset_id)
                         ELSE Message("error", "saving the data failed", <<>>)
       ELSE /\ msg' = Message("error", "fill in all required fields", <<>>)
            /\ UNCHANGED <<df, file>>
    /\ UNCHANGED <<now, view, cache, loaded>>

----------------------------------------------------------------------------
(* Device management: edit and delete (lines 514-583) *)

\* a slip: the next maintenance rescheduled by the interval just edited
UpdatedRowRescheduled(r, equipment_name, device_status, priority, maintenance_interval, notes) ==
    [r EXCEPT !.EquipmentName = equipment_name,
              !.DeviceStatus = device_status,
              !.Priority = priority,
              !.IntervalDays = maintenance_interval,
              !.NextMaintenance =
                  IF notna(r.LastMaintenance)
                  THEN r.LastMaintenance + timedelta(maintenance_interval)
                  ELSE IF notna(r.InstallationDate)
                  THEN r.InstallationDate + timedelta(maintenance_interval)
                  ELSE r.NextMaintenance,
              !.Notes = notes]

\* the row after lines 561-567
UpdatedRow(r, equipment_name, device_status, priority, maintenance_interval, notes) ==
    [r EXCEPT !.EquipmentName = equipment_name,
              !.DeviceStatus = device_status,
              !.Priority = priority,
              !.IntervalDays = maintenance_interval,
              !.Notes = notes]

UpdateDevice(asset_id, equipment_name, device_status, priority, maintenance_interval, notes, save_ok) ==
    /\ Submit
    /\ asset_id \in AssetIds(df)
    /\ asset_id # <<>>
    /\ form' = [name |-> "edit_device_form", button |-> "update",
                asset_id |-> asset_id, equipment_name |-> equipment_name,
                device_status |-> device_status, priority |-> priority,
                maintenance_interval |-> maintenance_interval, notes |-> notes]
    /\ LET idx == IndexOf(df, asset_id)
           new_df == [df EXCEPT ![idx] = UpdatedRow(df[idx], equipment_name,
                                                    device_status, priority,
                                                    maintenance_interval, notes)]
       IN /\ df' = new_df
          /\ file' = save_data(new_df, file, save_ok)
          /\ msg' = IF save_ok
                    THEN Message("success", "changes saved", <<>>)
                    ELSE Message("error", "saving the changes failed", <<>>)
    /\ UNCHANGED <<now, view, cache, loaded>>

\* a slip: the filtered frame never stored back into the session
RowsKept(d, asset_id) == d

\* st.session_state.df[st.session_state.df['Asset ID'] != asset_id]
RowsWithout(d, asset_id) == SelectRows(d, LAMBDA r : r.AssetID # asset_id)

\* delete_btn pressed; confirmed is what st.checkbox returns
DeleteDevice(asset_id, confirmed, save_ok) ==
    /\ Submit
    /\ asset_id \in AssetIds(df)
    /\ asset_id # <<>>
    /\ form' = [name |-> "edit_device_form", button |-> "delete",
                asset_id |-> asset_id, confirmed |-> confirmed]
    /\ IF confirmed
       THEN LET new_df == RowsWithout(df, asset_id)
            IN /\ df' = new_df
               /\ file' = save_data(new_df, file, save_ok)
               /\ msg' = IF save_ok
                         THEN Message("success", "device deleted", <<>>)
                         ELSE Message("error", "deleting the device failed", <<>>)
       ELSE UNCHANGED <<df, file, msg>>
    /\ UNCHANGED <<now, view, cache, loaded>>

----------------------------------------------------------------------------
(* Maintenance scheduling: log a completed maintenance (lines 679-750) *)

\* f"\n[{maintenance_date}] {maintenance_type} - {technician}: {maintenance_notes}"
new_note(maintenance_date, maintenance_type) ==
    <<[date |-> maintenance_date, text |-> maintenance_type]>>

\* a slip: the new line stored in place of the earlier notes
LoggedRowNotesReplaced(device, maintenance_date, maintenance_type, device_status_after, next_maintenance_interval) ==
    [device EXCEPT
        !.LastMaintenance = Timestamp(maintenance_date),
        !.NextMaintenance =
            Timestamp(maintenance_date) + timedelta(next_maintenance_interval),
        !.DeviceStatus = device_status_after,
        !.IntervalDays = next_maintenance_interval,
        !.Notes = new_note(maintenance_date, maintenance_type)]

\* a slip: the next date computed from the interval the row held before
LoggedRowOldInterval(device, maintenance_date, maintenance_type, device_status_after, next_maintenance_interval) ==
    [device EXCEPT
        !.LastMaintenance = Timestamp(maintenance_date),
        !.NextMaintenance = Timestamp(maintenance_date) + timedelta(device.IntervalDays),
        !.DeviceStatus = device_status_after,
        !.IntervalDays = next_maintenance_interval,
        !.Notes = device.Notes \o new_note(maintenance_date, maintenance_type)]

\* the row after lines 736-744
LoggedRow(device, maintenance_date, maintenance_type, device_status_after, next_maintenance_interval) ==
    [device EXCEPT
        !.LastMaintenance = Timestamp(maintenance_date),
        !.NextMaintenance =
            Timestamp(maintenance_date) + timedelta(next_maintenance_interval),
        !.DeviceStatus = device_status_after,
        !.IntervalDays = next_maintenance_interval,
        !.Notes = device.Notes \o new_note(maintenance_date, maintenance_type)]

LogMaintenance(asset_id, maintenance_date, maintenance_type, device_status_after, next_maintenance_interval, save_ok) ==
    /\ Submit
    /\ asset_id \in AssetIds(df)
    /\ asset_id # <<>>
    /\ Len(Device(asset_id).Notes) < MaxNotes
    /\ form' = [name |-> "maintenance_log_form", asset_id |-> asset_id,
                maintenance_date |-> maintenance_date,
                maintenance_type |-> maintenance_type,
                device_status_after |-> device_status_after,
                next_maintenance_interval |-> next_maintenance_interval]
    /\ LET idx == IndexOf(df, asset_id)
           new_df == [df EXCEPT ![idx] = LoggedRow(df[idx], maintenance_date,
                                                   maintenance_type,
                                                   device_status_after,
                                                   next_maintenance_interval)]
       IN /\ df' = new_df
          /\ file' = save_data(new_df, file, save_ok)
          /\ msg' = IF save_ok
                    THEN Message("success", "maintenance logged", <<>>)
                    ELSE Message("error", "saving the data failed", <<>>)
    /\ UNCHANGED <<now, view, cache, loaded>>

----------------------------------------------------------------------------
(* Settings: a new interval for an equipment type (lines 992-1022) *)

\* a slip: a never-maintained row rescheduled from its installation date
BulkRowFromInstallation(r, selected_equipment, new_interval) ==
    IF r.EquipmentName = selected_equipment
    THEN [r EXCEPT !.IntervalDays = new_interval,
                   !.NextMaintenance =
                       IF notna(r.LastMaintenance)
                       THEN r.LastMaintenance + timedelta(new_interval)
                       ELSE IF notna(r.InstallationDate)
                       THEN r.InstallationDate + timedelta(new_interval)
                       ELSE @]
    ELSE r

\* the row after lines 1011-1018
BulkRow(r, selected_equipment, new_interval) ==
    IF r.EquipmentName = selected_equipment
    THEN [r EXCEPT !.IntervalDays = new_interval,
                   !.NextMaintenance =
                       IF notna(r.LastMaintenance)
                       THEN r.LastMaintenance + timedelta(new_interval)
                       ELSE @]
    ELSE r

ApplyInterval(selected_equipment, new_interval, save_ok) ==
    /\ Submit
    /\ selected_equipment \in UniqueEquipmentNames(df)
    /\ selected_equipment # ""
    /\ form' = [name |-> "apply_interval", selected_equipment |-> selected_equipment,
                new_interval |-> new_interval]
    /\ LET new_df == [i \in 1..Len(df) |-> BulkRow(df[i], selected_equipment, new_interval)]
       IN /\ df' = new_df
          /\ file' = save_data(new_df, file, save_ok)
          /\ msg' = IF save_ok
                    THEN Message("success", "interval updated", <<>>)
                    ELSE Message("error", "error while saving", <<>>)
    /\ UNCHANGED <<now, view, cache, loaded>>

----------------------------------------------------------------------------
(* Renders: exported report, dashboard metrics, maintenance statistics *)

\* export_maintenance_report (lines 160-170): the rows of the center (all
\* rows when center is None, here ""), each with its Maintenance_Status
export_maintenance_report(d, center, today) ==
    LET df_export == IF center # ""
                     THEN SelectRows(d, LAMBDA r : r.CenterName = center)
                     ELSE d
    IN [i \in 1..Len(df_export) |->
           [row |-> df_export[i],
            Maintenance_Status |-> calculate_maintenance_status(df_export[i], today)[1]]]

\* lines 274-280: an empty multiselect filters nothing
df_filtered(d, selected_centers, selected_departments, status_filter) ==
    SelectRows(d, LAMBDA r :
        /\ selected_centers # {} => r.CenterName \in selected_centers
        /\ selected_departments # {} => r.Department \in selected_departments
        /\ status_filter # {} => r.DeviceStatus \in status_filter)

\* lines 295-298
DashboardOverdue(d, today) ==
    CountRows(d, LAMBDA r : Lt(r.NextMaintenance, today) /\ notna(r.NextMaintenance))

\* lines 307-311
DashboardUrgent(d, today) ==
    CountRows(d, LAMBDA r :
        /\ notna(r.NextMaintenance)
        /\ TimedeltaDays(r.NextMaintenance - today) <= UrgentDays
        /\ Ge(r.NextMaintenance, today))

\* lines 347-350: value_counts of the Maintenance_Status column
StatusCounts(d, today) ==
    LET statuses == {calculate_maintenance_status(d[i], today)[1] : i \in 1..Len(d)}
    IN [st \in statuses |->
           CountRows(d, LAMBDA r : calculate_maintenance_status(r, today)[1] = st)]

ShowDashboard(selected_centers, selected_departments, status_filter) ==
    /\ LET d == df_filtered(df, selected_centers, selected_departments, status_filter)
       IN view' = [screen |-> "dashboard", at |-> now,
                   selected_centers |-> selected_centers,
                   selected_departments |-> selected_departments,
                   status_filter |-> status_filter,
                   total |-> Len(d),
                   working |-> CountRows(d, LAMBDA r : r.DeviceStatus = "Working"),
                   overdue |-> DashboardOverdue(d, now),
                   urgent |-> DashboardUrgent(d, now),
                   broken |-> CountRows(d, LAMBDA r : r.DeviceStatus = "Broken"),
                   status_counts |-> StatusCounts(d, now)]
    /\ UNCHANGED <<df, file, now, form, msg, ops, cache, loaded>>

\* a slip: a record due at this very instant counted as late
StatisticsPendingInclusive(d, today) ==
    CountRows(d, LAMBDA r : Le(r.NextMaintenance, today) /\ notna(r.NextMaintenance))

\* lines 763-766
StatisticsPending(d, today) ==
    CountRows(d, LAMBDA r : Lt(r.NextMaintenance, today) /\ notna(r.NextMaintenance))

\* lines 770-774
StatisticsUpcoming(d, today) ==
    CountRows(d, LAMBDA r :
        /\ Ge(r.NextMaintenance, today)
        /\ Le(r.NextMaintenance, today + timedelta(UpcomingDays))
        /\ notna(r.NextMaintenance))

\* lines 780-783: groupby('Center_Name').size() of the late rows (a row
\* without a center name belongs to no group)
OverdueByCenter(d, today) ==
    LET late == SelectRows(d, LAMBDA r :
                    Lt(r.NextMaintenance, today) /\ notna(r.NextMaintenance))
    IN [c \in UniqueCenterNames(late) |-> CountRows(late, LAMBDA r : r.CenterName = c)]

ShowStatistics ==
    /\ view' = [screen |-> "statistics", at |-> now,
                completed |-> CountRows(df, LAMBDA r : notna(r.LastMaintenance)),
                pending |-> StatisticsPending(df, now),
                upcoming |-> StatisticsUpcoming(df, now),
                overdue_by_center |-> OverdueByCenter(df, now)]
    /\ UNCHANGED <<df, file, now, form, msg, ops, cache, loaded>>

ExportReport(center) ==
    /\ center \in UniqueCenterNames(df) \cup {""}
    /\ view' = [screen |-> "report", at |-> now, center |-> center,
                rows |-> export_maintenance_report(df, center, now)]
    /\ UNCHANGED <<df, file, now, form, msg, ops, cache, loaded>>

----------------------------------------------------------------------------
(* Maintenance scheduling: the schedule table (lines 591-677) *)

\* the order of the priority labels as strings (the order of the Arabic
\* labels of line 604): "High" < "Medium" < "Low"
PriorityRank(p) == IF p = "High" THEN 1 ELSE IF p = "Medium" THEN 2 ELSE 3

\* lines 617-633: the time range chosen
InTimeRange(r, time_range, today) ==
    IF time_range = "Overdue" THEN Lt(r.NextMaintenance, today)
    ELSE IF time_range = "Week"
    THEN Ge(r.NextMaintenance, today) /\ Le(r.NextMaintenance, today + timedelta(7))
    ELSE IF time_range = "Month"
    THEN Ge(r.NextMaintenance, today) /\ Le(r.NextMaintenance, today + timedelta(30))
    ELSE IF time_range = "Quarter"
    THEN Ge(r.NextMaintenance, today) /\ Le(r.NextMaintenance, today + timedelta(90))
    ELSE TRUE

\* sort_values(['Priority', 'Next_Maintenance'], ascending=[False, True]),
\* rows that tie staying in the order they had
SortSchedule(d) ==
    LET Before(i, j) ==
            \/ PriorityRank(d[i].Priority) > PriorityRank(d[j].Priority)
            \/ /\ PriorityRank(d[i].Priority) = PriorityRank(d[j].Priority)
               /\ \/ d[i].NextMaintenance < d[j].NextMaintenance
                  \/ d[i].NextMaintenance = d[j].NextMaintenance /\ i < j
        nth(k) == CHOOSE i \in 1..Len(d) :
                      Cardinality({j \in 1..Len(d) : Before(j, i)}) = k - 1
    IN [k \in 1..Len(d) |-> d[nth(k)]]

\* a slip: the filtered and sorted table stored back into the session
ShowScheduleInPlace(time_range, priority_filter, center_filter) ==
    /\ df' = SortSchedule(SelectRows(df, LAMBDA r :
                 notna(r.NextMaintenance) /\ InTimeRange(r, time_range, now)))
    /\ view' = [screen |-> "schedule", at |-> now]
    /\ UNCHANGED <<file, now, form, msg, ops, cache, loaded>>

\* lines 614-651: df_schedule is a copy; the table shows it sorted, each row
\* with its icon and its days left
ShowSchedule(time_range, priority_filter, center_filter) ==
    /\ LET df_schedule == SortSchedule(SelectRows(df, LAMBDA r :
                              /\ notna(r.NextMaintenance)
                              /\ InTimeRange(r, time_range, now)
                              /\ priority_filter # {} => r.Priority \in priority_filter
                              /\ center_filter # "All" => r.CenterName = center_filter))
       IN view' = [screen |-> "schedule", at |-> now,
                   time_range |-> time_range,
                   priority_filter |-> priority_filter,
                   center_filter |-> center_filter,
                   count |-> Len(df_schedule),
                   rows |-> [i \in 1..Len(df_schedule) |->
                       [AssetID |-> df_schedule[i].AssetID,
                        Status_Icon |-> calculate_maintenance_status(df_schedule[i], now)[2],
                        Days_Until |-> TimedeltaDays(df_schedule[i].NextMaintenance - now)]]]
    /\ UNCHANGED <<df, file, now, form, msg, ops, cache, loaded>>

----------------------------------------------------------------------------
(* Sessions: main's lines 216-224 *)

\* lines 216-222: load_data is called, its result goes into the session
\* when it is a DataFrame, else the error is shown and main returns
MainLoad ==
    LET res == CachedLoad(cache, file)
    IN /\ cache' = Cached(res)
       /\ loaded' = res.ok
       /\ df' = res.df
       /\ msg' = IF res.ok THEN NoMessage
                 ELSE Message("error", "loading the data failed", <<>>)

\* a browser opens the application: an empty st.session_state, and main runs
StartSession ==
    /\ Submit
    /\ MainLoad
    /\ form' = NoForm
    /\ view' = NoView
    /\ UNCHANGED <<file, now>>

\* any user action in a session that holds no DataFrame: main runs again
Rerun ==
    /\ ~loaded
    /\ MainLoad
    /\ UNCHANGED <<file, now, form, view, ops>>

\* outside the application: an unreadable workbook is replaced by f
RepairFile(f) ==
    /\ ~Readable(file)
    /\ Readable(f)
    /\ file' = f
    /\ UNCHANGED <<df, now, form, msg, view, ops, cache, loaded>>

----------------------------------------------------------------------------
(* Settings: restore from a backup (lines 1062-1076) *)

\* a column the DataFrame lacks: reading it raises KeyError
NoCode == <<>>
NoName == "no column"

\* whether the DataFrame has the columns Center_Code and Center_Name, which
\* the dashboard, device management, scheduling and reports pages read
\* while they render (lines 254, 402, 443, 610)
HasCenterColumns(d) == \A i \in 1..Len(d) : d[i].CenterName # NoName

\* pd.read_excel(uploaded_backup): the sheet as it is, no column derived
read_excel(u) ==
    [i \in 1..Len(u.rows) |->
        LET r == u.rows[i]
        IN [AssetID |-> r.AssetID,
            CenterCode |-> IF "Center_Code" \in u.cols THEN r.CenterCode ELSE NoCode,
            CenterName |-> IF "Center_Name" \in u.cols THEN r.CenterName ELSE NoName,
            Department |-> r.Department,
            EquipmentName |-> r.EquipmentName,
            InstallationDate |-> r.InstallationDate,
            LastMaintenance |-> r.LastMaintenance,
            NextMaintenance |-> r.NextMaintenance,
            IntervalDays |-> r.IntervalDays,
            DeviceStatus |-> r.DeviceStatus,
            Priority |-> r.Priority,
            Notes |-> r.Notes]]

\* a slip: the session emptied before the upload is parsed
RestoreBackupClearingFirst(uploaded) ==
    /\ Submit
    /\ loaded
    /\ form' = [name |-> "restore", uploaded |-> uploaded]
    /\ IF uploaded.parses
       THEN /\ df' = read_excel(uploaded)
            /\ msg' = Message("success", "data restored", <<>>)
       ELSE /\ df' = <<>>
            /\ msg' = Message("error", "restoring the data failed", <<>>)
    /\ UNCHANGED <<file, now, view, cache, loaded>>

\* the restore button pressed with a file uploaded (lines 1068-1076)
RestoreBackup(uploaded) ==
    /\ Submit
    /\ loaded
    /\ form' = [name |-> "restore", uploaded |-> uploaded]
    /\ IF uploaded.parses
       THEN /\ df' = read_excel(uploaded)
            /\ msg' = Message("success", "data restored", <<>>)
       ELSE /\ df' = df
            /\ msg' = Message("error", "restoring the data failed", <<>>)
    /\ UNCHANGED <<file, now, view, cache, loaded>>

----------------------------------------------------------------------------
(* The clock *)

Tick ==
    /\ now < MaxNow
    /\ now' = now + 1
    /\ UNCHANGED <<df, file, form, msg, view, ops, cache, loaded>>

----------------------------------------------------------------------------
(* What the forms offer *)

\* st.date_input: day 0 and a day MaxPast days earlier
FormDates == {0 - MaxPast, 0}
\* st.number_input(min_value=7, max_value=365): the values around the
\* thresholds of the evaluator
FormIntervals == {UrgentDays + 1, UpcomingDays, UpcomingDays + 1, UpcomingDays + 2}

KHL_001 == KHL_PHC \o <<"-", "0", "0", "1">>
GQH_001 == GQH_PHC \o <<"-", "0", "0", "1">>

\* the spreadsheet as first delivered: no maintenance columns
OriginalFile ==
    [cols |-> BaseColumns,
     rows |-> << BaseRow(KHL_001, "Lab", "ECG", Timestamp(0)),
                 BaseRow(GQH_001, "Lab", "XRay", NaT) >>]

----------------------------------------------------------------------------
(* The scheduling life of a session: add, edit, log, bulk interval, clock *)

Init ==
    /\ file = OriginalFile
    /\ df = load_data(file)
    /\ now = 0
    /\ form = NoForm
    /\ msg = NoMessage
    /\ view = NoView
    /\ ops = 0
    /\ cache = Cached(LoadResult(file))
    /\ loaded = TRUE

Next ==
    \/ \E center \in CenterNames, equipment_name \in {"", "ECG"}, maintenance_interval \in {MinInterval, DefaultInterval} :
          AddDevice(center, equipment_name, "Lab", 0, "Working", maintenance_interval, "Medium", <<>>, TRUE)
    \/ \E asset_id \in AssetIds(df), maintenance_interval \in {MinInterval, UpcomingDays} :
          UpdateDevice(asset_id, Device(asset_id).EquipmentName, Device(asset_id).DeviceStatus, Device(asset_id).Priority, maintenance_interval, Device(asset_id).Notes, TRUE)
    \/ \E asset_id \in AssetIds(df), maintenance_date \in FormDates, next_maintenance_interval \in FormIntervals :
          LogMaintenance(asset_id, maintenance_date, "periodic", "Working", next_maintenance_interval, TRUE)
    \/ \E selected_equipment \in UniqueEquipmentNames(df), new_interval \in {MinInterval, UpcomingDays + 1} :
          ApplyInterval(selected_equipment, new_interval, TRUE)
    \/ Tick

Spec == Init /\ [][Next]_vars

----------------------------------------------------------------------------
(* Claims about the schedule, checked under Spec *)

\* the reference date of a row: its last maintenance, or its installation
\* date when it has never been maintained
ReferenceDate(r) ==
    IF notna(r.LastMaintenance) THEN r.LastMaintenance ELSE r.InstallationDate

DueAfterInterval(r) ==
    /\ notna(ReferenceDate(r))
    /\ r.NextMaintenance = ReferenceDate(r) + r.IntervalDays * TicksPerDay

\* the row that carries asset id a in frame d
RowOf(d, a) == d[CHOOSE i \in 1..Len(d) : d[i].AssetID = a]

\* C5 as stated: in every reachable state every record with a present
\* next_maintenance has next_maintenance = last_maintenance + interval, or
\* installation_date + interval when it was never maintained.
C5_NextIsReferencePlusInterval ==
    \A i \in 1..Len(df) : notna(df[i].NextMaintenance) => DueAfterInterval(df[i])

\* C5 amended: every step that gives a record a next_maintenance, or changes
\* the one it has, leaves that record with next_maintenance = reference date
\* + interval; steps that only change the interval (an edit, a bulk interval
\* on a never-maintained record) write no next_maintenance.
C5_WrittenNextIsReferencePlusInterval ==
    [][\A i \in 1..Len(df') :
          LET r == df'[i]
          IN (/\ notna(r.NextMaintenance)
              /\ \/ r.AssetID \notin AssetIds(df)
                 \/ RowOf(df, r.AssetID).NextMaintenance # r.NextMaintenance)
             => DueAfterInterval(r)]_vars

\* C5 witness: an edit has changed the interval of a record whose due date a
\* maintenance log had written, and the due date is no longer reference
\* date + interval.
C5_Witness ==
    /\ form.name = "edit_device_form"
    /\ form.button = "update"
    /\ notna(Device(form.asset_id).LastMaintenance)
    /\ notna(Device(form.asset_id).NextMaintenance)
    /\ Device(form.asset_id).IntervalDays = form.maintenance_interval
    /\ ~DueAfterInterval(Device(form.asset_id))

\* C6: after maintenance is logged on date D with interval I for asset id A,
\* the record A has last_maintenance = D and next_maintenance = D + I days.
C6_LogSetsLastAndNext ==
    form.name = "maintenance_log_form" =>
        LET r == Device(form.asset_id)
        IN /\ r.LastMaintenance = Timestamp(form.maintenance_date)
           /\ r.NextMaintenance =
                  Timestamp(form.maintenance_date + form.next_maintenance_interval)
           /\ DateOf(r.NextMaintenance) - DateOf(r.LastMaintenance)
                  = form.next_maintenance_interval

\* C6 witness: a maintenance logged on the earlier date with the longest
\* interval offered, on a record whose interval was different before.
C6_Witness ==
    /\ form.name = "maintenance_log_form"
    /\ form.maintenance_date = 0 - MaxPast
    /\ form.next_maintenance_interval = UpcomingDays + 2
    /\ Device(form.asset_id).LastMaintenance = Timestamp(0 - MaxPast)
    /\ Device(form.asset_id).NextMaintenance = Timestamp(UpcomingDays + 2 - MaxPast)

\* the status the evaluator returns for the record of the form, at `now`
StatusNow(asset_id) == calculate_maintenance_status(Device(asset_id), now)[1]

\* the record of the maintenance form still stands as the log left it
LoggedAndUntouched ==
    /\ form.name = "maintenance_log_form"
    /\ DateOf(now) = form.maintenance_date

\* C7 as stated: after maintenance is logged on date D with interval I,
\* evaluation at any time of day D yields Upcoming when 8 <= I <= 30 and
\* Good when I > 30.
C7_RoundTripAnyTimeOfDay ==
    LoggedAndUntouched =>
        LET I == form.next_maintenance_interval
        IN /\ (UrgentDays + 1 <= I /\ I <= UpcomingDays)
                  => StatusNow(form.asset_id) = "Upcoming"
           /\ I > UpcomingDays => StatusNow(form.asset_id) = "Good"

\* C7 amended: at midnight of day D the evaluation yields Upcoming when
\* 8 <= I <= 30 and Good when I > 30; later on day D the floored day count
\* is I - 1, so it yields Urgent when I = 8, Upcoming when 9 <= I <= 31 and
\* Good when I > 31.
C7_RoundTripByTimeOfDay ==
    LoggedAndUntouched =>
        LET I == form.next_maintenance_interval
            J == IF now = Timestamp(form.maintenance_date) THEN I ELSE I - 1
        IN /\ J <= UrgentDays => StatusNow(form.asset_id) = "Urgent"
           /\ (UrgentDays + 1 <= J /\ J <= UpcomingDays)
                  => StatusNow(form.asset_id) = "Upcoming"
           /\ J > UpcomingDays => StatusNow(form.asset_id) = "Good"

\* C7 witness: maintenance logged today with an interval of 8 days and
\* evaluated later the same day: Urgent.
C7_Witness ==
    /\ LoggedAndUntouched
    /\ now > Timestamp(form.maintenance_date)
    /\ form.next_maintenance_interval = UrgentDays + 1
    /\ StatusNow(form.asset_id) = "Urgent"

\* the bulk interval form has just been applied
BulkStep == form'.name = "apply_interval" /\ ops' = ops + 1

\* C8 as stated: after a new interval is applied to an equipment type, every
\* matching record with a last_maintenance has next_maintenance =
\* last_maintenance + new interval, and every matching record without one
\* has no next_maintenance.
C8_BulkLeavesNeverMaintainedAbsent ==
    form.name = "apply_interval" =>
        \A i \in 1..Len(df) :
            df[i].EquipmentName = form.selected_equipment =>
                IF notna(df[i].LastMaintenance)
                THEN df[i].NextMaintenance
                         = df[i].LastMaintenance + form.new_interval * TicksPerDay
                ELSE isna(df[i].NextMaintenance)

\* C8 amended: applying a new interval to an equipment type sets
\* next_maintenance = last_maintenance + new interval for every matching
\* record that has a last_maintenance, and leaves the next_maintenance of
\* every matching record without one as it was (absent, or the
\* installation date + earlier interval an add gave it); every matching
\* record gets the new interval and no other record changes.
C8_BulkKeepsNeverMaintainedAsItWas ==
    [][BulkStep =>
          /\ Len(df') = Len(df)
          /\ \A i \in 1..Len(df) :
                IF df[i].EquipmentName = form'.selected_equipment
                THEN /\ df'[i].IntervalDays = form'.new_interval
                     /\ df'[i].LastMaintenance = df[i].LastMaintenance
                     /\ IF notna(df[i].LastMaintenance)
                        THEN df'[i].NextMaintenance
                                = df[i].LastMaintenance + form'.new_interval * TicksPerDay
                        ELSE df'[i].NextMaintenance = df[i].NextMaintenance
                ELSE df'[i] = df[i]]_vars

\* C8 witness: the new interval was applied to a type with one record that
\* had been maintained (rescheduled) and one added record that had not
\* (still due on installation date + its earlier interval).
C8_Witness ==
    /\ form.name = "apply_interval"
    /\ \E i \in 1..Len(df) :
          /\ df[i].EquipmentName = form.selected_equipment
          /\ notna(df[i].LastMaintenance)
          /\ df[i].NextMaintenance = df[i].LastMaintenance + form.new_interval * TicksPerDay
    /\ \E i \in 1..Len(df) :
          /\ df[i].EquipmentName = form.selected_equipment
          /\ isna(df[i].LastMaintenance)
          /\ notna(df[i].NextMaintenance)
          /\ df[i].NextMaintenance # df[i].InstallationDate + form.new_interval * TicksPerDay

----------------------------------------------------------------------------
(* The views of a loaded spreadsheet: SpecEval *)

KHL_002 == KHL_PHC \o <<"-", "0", "0", "2">>

\* one row of a file that holds every column
FullRow(asset_id, equipment_name, installation_date, last, next, interval, device_status, priority) ==
    [AssetID |-> asset_id, Department |-> "Lab", EquipmentName |-> equipment_name,
     InstallationDate |-> installation_date, LastMaintenance |-> last,
     NextMaintenance |-> next, IntervalDays |-> interval,
     DeviceStatus |-> device_status, Priority |-> priority, Notes |-> <<>>]

\* due dates around the thresholds of the evaluator, at every time of day
EvalDays == {0 - 1, 0, UrgentDays, UrgentDays + 1, UpcomingDays, UpcomingDays + 1}
EvalTimes == {Timestamp(d) + t : d \in EvalDays, t \in 0..(TicksPerDay - 1)} \cup {NaT}
\* the same due dates at the start of the day
EvalDates == {Timestamp(d) : d \in EvalDays} \cup {NaT}

\* files of one row, every column varied
OneRowFiles ==
    { <<FullRow(KHL_001, "ECG", inst, last, next, interval, st, pr)>> :
        inst \in {NaT, Timestamp(0)}, last \in {NaT, Timestamp(0 - MaxPast)},
        next \in EvalTimes, interval \in {MinInterval, DefaultInterval},
        st \in DeviceStatuses, pr \in Priorities }

\* files of two rows, of one center or of two
TwoRowFiles ==
    { <<FullRow(KHL_001, "ECG", NaT, NaT, next1, DefaultInterval, st1, "Medium"),
        FullRow(id2, "XRay", NaT, NaT, next2, DefaultInterval, st2, "Medium")>> :
        next1 \in EvalTimes, next2 \in EvalDates, st1 \in {"Working", "Broken"},
        st2 \in {"Working", "Broken"}, id2 \in {KHL_002, GQH_001} }

InitEval ==
    /\ \E rows \in OneRowFiles \cup TwoRowFiles :
          file = [cols |-> BaseColumns \cup MaintenanceColumns, rows |-> rows]
    /\ df = load_data(file)
    /\ now = 0
    /\ form = NoForm
    /\ msg = NoMessage
    /\ view = NoView
    /\ ops = 0
    /\ cache = Cached(LoadResult(file))
    /\ loaded = TRUE

NextEval ==
    \/ \E selected_centers \in {{}, {"Al-Khalawiya"}}, status_filter \in {{}, {"Working"}} :
          ShowDashboard(selected_centers, {}, status_filter)
    \/ ShowStatistics
    \/ \E center \in CenterNames \cup {""} : ExportReport(center)
    \/ \E time_range \in {"Overdue", "All"} :
          ShowSchedule(time_range, {"High", "Medium"}, "All")
    \/ Tick

SpecEval == InitEval /\ [][NextEval]_vars

----------------------------------------------------------------------------
(* Claims about the evaluator and the totals, checked under SpecEval *)

\* the whole days in a difference of timestamps: the integer k with
\* k days <= td < k + 1 days
WholeDays(td) ==
    CHOOSE k \in (0 - MaxInterval)..MaxInterval :
        k * TicksPerDay <= td /\ td < (k + 1) * TicksPerDay

\* the classes of the partition of the integers
StatusOfDays(k) ==
    { st \in {"Overdue", "Urgent", "Upcoming", "Good"} :
        \/ st = "Overdue" /\ k < 0
        \/ st = "Urgent" /\ 0 <= k /\ k <= 7
        \/ st = "Upcoming" /\ 8 <= k /\ k <= 30
        \/ st = "Good" /\ k > 30 }

\* C1: every record with a next_maintenance gets exactly one status, the
\* one of floor((next_maintenance - now) in days): Overdue below 0, Urgent
\* from 0 to 7, Upcoming from 8 to 30, Good above 30; every record gets one
\* of the five statuses.
C1_StatusIsThePartitionOfFlooredDays ==
    view.screen = "report" =>
        \A i \in 1..Len(view.rows) :
            LET r == view.rows[i].row
                st == view.rows[i].Maintenance_Status
            IN /\ st \in {"Undetermined", "Overdue", "Urgent", "Upcoming", "Good"}
               /\ notna(r.NextMaintenance) =>
                      StatusOfDays(WholeDays(r.NextMaintenance - view.at)) = {st}

\* C1 witness: a record due less than a day ago (floor -1, not 0) is
\* reported Overdue.
C1_Witness ==
    /\ view.screen = "report"
    /\ \E i \in 1..Len(view.rows) :
          /\ notna(view.rows[i].row.NextMaintenance)
          /\ view.rows[i].row.NextMaintenance < view.at
          /\ view.at - view.rows[i].row.NextMaintenance < TicksPerDay
          /\ view.rows[i].Maintenance_Status = "Overdue"

\* C2: a record without a next_maintenance is Undetermined, whatever its
\* device status, priority, last maintenance, installation date and
\* interval are.
C2_AbsentDateIsUndetermined ==
    view.screen = "report" =>
        \A i \in 1..Len(view.rows) :
            isna(view.rows[i].row.NextMaintenance)
                => view.rows[i].Maintenance_Status = "Undetermined"

\* C2 witness: a broken, high-priority, maintained and installed record
\* without a next_maintenance is reported Undetermined.
C2_Witness ==
    /\ view.screen = "report"
    /\ \E i \in 1..Len(view.rows) :
          LET r == view.rows[i].row
          IN /\ isna(r.NextMaintenance)
             /\ r.DeviceStatus = "Broken"
             /\ r.Priority = "High"
             /\ notna(r.LastMaintenance)
             /\ notna(r.InstallationDate)
             /\ r.IntervalDays = MinInterval
             /\ view.rows[i].Maintenance_Status = "Undetermined"

\* how many rows of d the evaluator puts in status st at time t
Classified(d, st, t) ==
    Cardinality({i \in 1..Len(d) : calculate_maintenance_status(d[i], t)[1] = st})

\* the rows the dashboard on screen was computed from
Shown == df_filtered(df, view.selected_centers, view.selected_departments, view.status_filter)

\* the rows of one center
OfCenter(d, c) == SelectRows(d, LAMBDA r : r.CenterName = c)

\* the overdue and urgent totals of the dashboard, the overdue total of
\* the statistics and the overdue count of every center are the evaluator's
OverdueAndUrgentTotalsAgree ==
    /\ view.screen = "dashboard" =>
          /\ view.overdue = Classified(Shown, "Overdue", view.at)
          /\ view.urgent = Classified(Shown, "Urgent", view.at)
    /\ view.screen = "statistics" =>
          /\ view.pending = Classified(df, "Overdue", view.at)
          /\ \A c \in CenterNames :
                Classified(OfCenter(df, c), "Overdue", view.at)
                    = IF c \in DOMAIN view.overdue_by_center
                      THEN view.overdue_by_center[c] ELSE 0

\* C10 as stated: the overdue, urgent and upcoming totals on screen are the
\* numbers of records the evaluator classifies Overdue, Urgent and
\* Upcoming, and the per-center overdue counts are those of each center.
C10_TotalsAreTheEvaluatorsCounts ==
    /\ OverdueAndUrgentTotalsAgree
    /\ view.screen = "statistics" =>
          view.upcoming = Classified(df, "Upcoming", view.at)

\* C10 amended: the overdue and urgent totals and the per-center overdue
\* counts are the evaluator's counts (over the rows the dashboard's filters
\* keep, over all rows in the statistics); the "upcoming (30 days)" total of
\* the statistics is the number of records due from now to now + 30 days
\* to the instant: those classified Urgent or Upcoming, less the Upcoming
\* ones due more than 30 whole days ahead.
C10_UpcomingTotalIsDueWithinThirtyDays ==
    /\ OverdueAndUrgentTotalsAgree
    /\ view.screen = "statistics" =>
          view.upcoming =
              Cardinality({i \in 1..Len(df) :
                  /\ calculate_maintenance_status(df[i], view.at)[1] \in {"Urgent", "Upcoming"}
                  /\ df[i].NextMaintenance - view.at <= 30 * TicksPerDay})

\* C10 witness: statistics showing an upcoming total of 2 for one Urgent
\* record and one Upcoming record.
C10_Witness ==
    /\ view.screen = "statistics"
    /\ view.upcoming = 2
    /\ Classified(df, "Urgent", view.at) = 1
    /\ Classified(df, "Upcoming", view.at) = 1

----------------------------------------------------------------------------
(* The asset ids of a session: SpecIds *)

KHL_005 == KHL_PHC \o <<"-", "0", "0", "5">>
\* an id whose suffix is no number
KHL_A1 == KHL_PHC \o <<"-", "A", "1">>

\* the ids of the delivered file: pairwise distinct
IdSets ==
    { <<KHL_001, KHL_002, KHL_005>>, <<KHL_002>>, <<KHL_A1>>,
      <<KHL_001, GQH_001>>, <<KHL_005, KHL_A1, GQH_001>> }

InitIds ==
    /\ \E ids \in IdSets :
          file = [cols |-> BaseColumns,
                  rows |-> [i \in 1..Len(ids) |->
                               BaseRow(ids[i], "Lab", "ECG", Timestamp(0 - MaxPast))]]
    /\ df = load_data(file)
    /\ now = 0
    /\ form = NoForm
    /\ msg = NoMessage
    /\ view = NoView
    /\ ops = 0
    /\ cache = Cached(LoadResult(file))
    /\ loaded = TRUE

NextIds ==
    \/ \E center \in CenterNames \cup {""}, equipment_name \in {"", "ECG"}, department \in {"", "Lab"}, save_ok \in BOOLEAN :
          AddDevice(center, equipment_name, department, 0, "Working", DefaultInterval, "Medium", <<>>, save_ok)
    \/ \E asset_id \in AssetIds(df) :
          UpdateDevice(asset_id, "XRay", "Broken", "High", MinInterval, Device(asset_id).Notes, TRUE)
    \/ \E asset_id \in AssetIds(df), confirmed \in BOOLEAN, save_ok \in BOOLEAN :
          DeleteDevice(asset_id, confirmed, save_ok)
    \/ \E asset_id \in AssetIds(df) :
          LogMaintenance(asset_id, 0 - MaxPast, "periodic", "UnderMaintenance", MinInterval, TRUE)
    \/ \E selected_equipment \in UniqueEquipmentNames(df) :
          ApplyInterval(selected_equipment, UpcomingDays, TRUE)
    \/ Tick

SpecIds == InitIds /\ [][NextIds]_vars

----------------------------------------------------------------------------
(* Properties of the asset ids, under SpecIds *)

\* the add form was the last one submitted and it passed the required-field test
Added ==
    /\ form.name = "add_device_form"
    /\ msg.text \in {"device added", "saving the data failed"}

\* the numeric suffixes among the ids of center code c in d
NumericSuffixes(d, c) ==
    { IntOf(Suffix(d[i].AssetID)) :
        i \in { j \in 1..Len(d) : d[j].CenterCode = c /\ IsInt(Suffix(d[j].AssetID)) } }

\* the largest of them, 0 when there are none
LargestSuffix(d, c) ==
    LET nums == NumericSuffixes(d, c) \cup {0}
    IN CHOOSE m \in nums : \A n \in nums : n <= m

\* n < 1000 written with exactly three decimal digits
ThreeDigits(n) ==
    <<Digits[((n \div 100) % 10) + 1], Digits[((n \div 10) % 10) + 1], Digits[(n % 10) + 1]>>

KHL_003 == KHL_PHC \o <<"-", "0", "0", "3">>
KHL_006 == KHL_PHC \o <<"-", "0", "0", "6">>

\* C3: after a device is added to center C, the record appended carries the
\* id '<code of C>-<max+1 on three digits>', max being the largest numeric
\* suffix among the records center C had before (0 when it had none with a
\* number); ids {C-001, C-002, C-005} give C-006 and no numbered id gives
\* C-001; the success message names that id.
C3_AddAllocatesMaxPlusOne ==
    Added =>
        LET before == SubSeq(df, 1, Len(df) - 1)
            added == df[Len(df)]
            code == CENTERS_DICT_REV(form.center)
            mine == { before[i].AssetID : i \in { j \in 1..Len(before) : before[j].CenterCode = code } }
        IN /\ added.AssetID = code \o <<"-">> \o ThreeDigits(LargestSuffix(before, code) + 1)
           /\ added.CenterCode = code
           /\ (code = KHL_PHC /\ mine = {KHL_001, KHL_002, KHL_005}) => added.AssetID = KHL_006
           /\ NumericSuffixes(before, code) = {} => added.AssetID = code \o <<"-", "0", "0", "1">>
           /\ msg.level = "success" => msg.asset = added.AssetID

\* C3 witness: the center held KHL-PHC-001, -002 and -005 and the device added
\* to it received KHL-PHC-006.
C3_Witness ==
    /\ Added
    /\ Len(df) = 4
    /\ {df[i].AssetID : i \in 1..3} = {KHL_001, KHL_002, KHL_005}
    /\ df[4].AssetID = KHL_006
    /\ msg.asset = KHL_006

\* C4: the asset ids of the in-memory record set stay pairwise distinct
\* through every add, edit, maintenance log, bulk interval and delete.
C4_AssetIdsPairwiseDistinct ==
    \A i, j \in 1..Len(df) : i # j => df[i].AssetID # df[j].AssetID

\* C4 witness: a center whose only record is KHL-PHC-002 received a second
\* record, numbered 003 and not 002.
C4_Witness ==
    /\ Added
    /\ Len(df) = 2
    /\ df[1].AssetID = KHL_002
    /\ df[2].AssetID = KHL_003

\* the count an aggregate loses when row r leaves it
Share(cond) == IF cond THEN 1 ELSE 0

\* C9 as stated: once the delete button has been pressed for asset id A, the
\* in-memory record set holds no record with id A.
C9_DeleteSubmittedRemoves ==
    (form.name = "edit_device_form" /\ form.button = "delete")
        => form.asset_id \notin AssetIds(df)

\* a step in which the delete button was pressed with the confirmation ticked
ConfirmedDeleteStep ==
    /\ ops' = ops + 1
    /\ form'.name = "edit_device_form"
    /\ form'.button = "delete"
    /\ form'.confirmed

\* C9: when the delete button is pressed for asset id A with the confirmation
\* ticked, the record leaves the in-memory record set: the total, the
\* per-status counts, the overdue count and the per-center counts each lose
\* exactly that record's share, and the next id of its center is computed
\* from the other records only.
C9_ConfirmedDeleteRemoves ==
    [][ConfirmedDeleteStep =>
          LET A == form'.asset_id
              r == RowOf(df, A)
              code == r.CenterCode
              others == { i \in 1..Len(df) : df[i].AssetID # A }
              rest == { IntOf(Suffix(df[i].AssetID)) :
                          i \in { j \in others : df[j].CenterCode = code
                                                  /\ IsInt(Suffix(df[j].AssetID)) } } \cup {0}
              top == CHOOSE m \in rest : \A n \in rest : n <= m
          IN /\ A \notin AssetIds(df')
             /\ Len(df') = Len(df) - 1
             /\ \A st \in DeviceStatuses :
                   CountRows(df', LAMBDA x : x.DeviceStatus = st)
                     = CountRows(df, LAMBDA x : x.DeviceStatus = st) - Share(r.DeviceStatus = st)
             /\ StatisticsPending(df', now') + DashboardOverdue(df', now')
                   = StatisticsPending(df, now) + DashboardOverdue(df, now)
                       - 2 * Share(Lt(r.NextMaintenance, now))
             /\ \A c \in CenterNames :
                   CountRows(df', LAMBDA x : x.CenterName = c)
                     = CountRows(df, LAMBDA x : x.CenterName = c) - Share(r.CenterName = c)
             /\ NewAssetId(df', code) = code \o <<"-">> \o ThreeDigits(top + 1)
    ]_vars

\* C9 witness: KHL-PHC-005 was deleted with the confirmation ticked; the
\* records 001 and 002 remain, none overdue, and the center's next id is 003.
C9_Witness ==
    /\ form.name = "edit_device_form"
    /\ form.button = "delete"
    /\ form.confirmed
    /\ form.asset_id = KHL_005
    /\ AssetIds(df) = {KHL_001, KHL_002}
    /\ StatisticsPending(df, now) = 0
    /\ NewAssetId(df, KHL_PHC) = KHL_003

\* the add form was submitted in this step
AddStep == ops' = ops + 1 /\ form'.name = "add_device_form"

\* C13: an add form submitted with an empty equipment name, center or
\* department is answered by the validation message; no row is appended, no
\* id is reported, and the DataFrame and the file are what they were.
C13_MissingRequiredFieldIsRejected ==
    [][(AddStep /\ (form'.equipment_name = "" \/ form'.center = "" \/ form'.department = ""))
          => /\ df' = df
             /\ file' = file
             /\ msg' = Message("error", "fill in all required fields", <<>>)
    ]_vars

\* C13 witness: the form came without an equipment name while a center and
\* a department were chosen, and the validation message is on screen.
C13_Witness ==
    /\ form.name = "add_device_form"
    /\ form.equipment_name = ""
    /\ form.center # ""
    /\ form.department # ""
    /\ msg.text = "fill in all required fields"
    /\ Len(df) > 0

\* the ids of center code c in d whose suffix is no number
Unparseable(d, c) ==
    { d[i].AssetID : i \in { j \in 1..Len(d) : d[j].CenterCode = c /\ ~IsInt(Suffix(d[j].AssetID)) } }

\* C14: when the chosen center holds an id whose suffix is no number, a
\* valid add still appends a record, and its number is one more than the
\* largest numeric suffix of the center's other ids (1 when no other id has
\* one): the unparseable id counts as 0.
C14_UnparseableSuffixCountsAsZero ==
    [][(/\ AddStep
        /\ form'.equipment_name # "" /\ form'.center # "" /\ form'.department # ""
        /\ Unparseable(df, CENTERS_DICT_REV(form'.center)) # {})
          => LET code == CENTERS_DICT_REV(form'.center)
                 parsed == { IntOf(Suffix(d.AssetID)) :
                               d \in { df[i] : i \in { j \in 1..Len(df) :
                                          /\ df[j].CenterCode = code
                                          /\ df[j].AssetID \notin Unparseable(df, code) } } }
                 others == parsed \cup {0}
                 top == CHOOSE m \in others : \A n \in others : n <= m
             IN /\ Len(df') = Len(df) + 1
                /\ df'[Len(df')].AssetID = code \o <<"-">> \o ThreeDigits(top + 1)
                /\ parsed = {} => df'[Len(df')].AssetID = code \o <<"-", "0", "0", "1">>
                /\ msg'.text # "fill in all required fields"
    ]_vars

\* C14 witness: the center held KHL-PHC-005 and KHL-PHC-A1 and the device
\* added to it received KHL-PHC-006.
C14_Witness ==
    /\ Added
    /\ {KHL_005, KHL_A1} \subseteq AssetIds(df)
    /\ df[Len(df)].AssetID = KHL_006
    /\ KHL_001 \notin AssetIds(df)

----------------------------------------------------------------------------
(* The record an add creates, under Spec *)

\* C17: the record appended by a valid add has no last maintenance, is due
\* I days after midnight of its installation date D0, and carries the code
\* and the name of the center chosen and the equipment name, department,
\* interval, device status, priority and notes of the form.
C17_AddedRecordCarriesTheForm ==
    Added =>
        LET r == df[Len(df)]
        IN /\ isna(r.LastMaintenance)
           /\ r.InstallationDate = form.installation_date * TicksPerDay
           /\ r.NextMaintenance = (form.installation_date + form.maintenance_interval) * TicksPerDay
           /\ \E c \in CENTERS : c.name = form.center /\ c.code = r.CenterCode
           /\ r.CenterName = form.center
           /\ r.IntervalDays = form.maintenance_interval
           /\ r.DeviceStatus = form.device_status
           /\ r.Priority = form.priority
           /\ r.EquipmentName = form.equipment_name
           /\ r.Department = form.department
           /\ r.Notes = form.notes

\* C17 witness: a device installed on day 0 was added to Jabal Al-Qahr with
\* the default interval and is due on day 90.
C17_Witness ==
    /\ Added
    /\ form.center = "Jabal Al-Qahr"
    /\ form.maintenance_interval = DefaultInterval
    /\ df[Len(df)].CenterCode = GQH_PHC
    /\ df[Len(df)].NextMaintenance = DefaultInterval * TicksPerDay
    /\ isna(df[Len(df)].LastMaintenance)

----------------------------------------------------------------------------
(* The evaluator as a pure function, under SpecEval *)

\* the icon the evaluator pairs with each status
IconOf(st) ==
    IF st = "Undetermined" THEN "white" ELSE IF st = "Overdue" THEN "red"
    ELSE IF st = "Urgent" THEN "orange" ELSE IF st = "Upcoming" THEN "yellow"
    ELSE "green"

\* the status of a record due td ticks after the reference time, read off
\* the thresholds in ticks: a whole day count below 0, up to 7, up to 30
StatusOfDelta(td) ==
    IF td < 0 THEN "Overdue"
    ELSE IF td < 8 * TicksPerDay THEN "Urgent"
    ELSE IF td < 31 * TicksPerDay THEN "Upcoming"
    ELSE "Good"

\* C15: rendering the dashboard, the statistics, the schedule or an
\* exported report leaves every record of the DataFrame and the file as
\* they were, and what the render shows for a record is what evaluating
\* that record again at the time of the render gives: the exported status,
\* the schedule's icon (the one paired with that status) and days left.
C15_RenderEvaluatesWithoutMutation ==
    [][view' # view =>
          /\ df' = df
          /\ file' = file
          /\ view'.screen = "report" =>
                \A i \in 1..Len(view'.rows) :
                    LET r == RowOf(df', view'.rows[i].row.AssetID)
                    IN view'.rows[i].Maintenance_Status =
                          IF isna(r.NextMaintenance) THEN "Undetermined"
                          ELSE StatusOfDelta(r.NextMaintenance - view'.at)
          /\ view'.screen = "schedule" =>
                \A i \in 1..Len(view'.rows) :
                    LET r == RowOf(df', view'.rows[i].AssetID)
                        k == view'.rows[i].Days_Until
                    IN /\ notna(r.NextMaintenance)
                       /\ view'.rows[i].Status_Icon
                              = IconOf(StatusOfDelta(r.NextMaintenance - view'.at))
                       /\ k * TicksPerDay <= r.NextMaintenance - view'.at
                       /\ r.NextMaintenance - view'.at < (k + 1) * TicksPerDay
    ]_vars

\* C15 witness: the schedule shows two records, the later-due one last,
\* over a DataFrame of two records.
C15_Witness ==
    /\ view.screen = "schedule"
    /\ view.count = 2
    /\ Len(df) = 2
    /\ view.rows[1].Days_Until < view.rows[2].Days_Until
    /\ view.rows[1].AssetID = df[2].AssetID

----------------------------------------------------------------------------
(* Sessions over one workbook: SpecSession *)

\* the workbook of a deployment in use: every column, two centers
SessionFile ==
    [cols |-> BaseColumns \cup MaintenanceColumns,
     rows |-> << FullRow(KHL_001, "ECG", Timestamp(0 - MaxPast), NaT, Timestamp(0), DefaultInterval, "Working", "High"),
                 FullRow(GQH_001, "ECG", NaT, NaT, NaT, DefaultInterval, "Broken", "Medium") >>]

\* a workbook load_data cannot read: no sheet with an Asset ID column
UnreadableFile == [cols |-> {}, rows |-> <<>>]

\* the backup the application exports (line 1052): every column of the
\* DataFrame, the center columns included
ExportedBackup ==
    [parses |-> TRUE,
     cols |-> BaseColumns \cup MaintenanceColumns \cup {"Center_Code", "Center_Name"},
     rows |-> load_data([cols |-> BaseColumns \cup MaintenanceColumns,
                         rows |-> << FullRow(KHL_001, "ECG", Timestamp(0 - MaxPast), NaT, NaT, MinInterval, "Broken", "Low") >>])]

\* a copy of a workbook as save_data writes it: no center columns
WorkbookCopy(f) == [parses |-> TRUE, cols |-> f.cols, rows |-> f.rows]

\* an upload that is no workbook
CorruptUpload == [parses |-> FALSE, cols |-> {}, rows |-> <<>>]

\* what the file uploader may hold
Uploads == {ExportedBackup, WorkbookCopy(SessionFile), CorruptUpload}

InitSession ==
    /\ file \in {SessionFile, UnreadableFile}
    /\ df = <<>>
    /\ now = 0
    /\ form = NoForm
    /\ msg = NoMessage
    /\ view = NoView
    /\ ops = 0
    /\ cache = NoCache
    /\ loaded = FALSE

\* a page that reads the center columns renders only when the DataFrame is
\* loaded and has them
PageRenders == loaded /\ HasCenterColumns(df)

NextSession ==
    \/ StartSession
    \/ Rerun
    \/ RepairFile(SessionFile)
    \/ \E uploaded \in Uploads : RestoreBackup(uploaded)
    \/ \E equipment_name \in {"", "ECG"}, save_ok \in BOOLEAN :
          PageRenders /\ AddDevice("Al-Khalawiya", equipment_name, "Lab", 0, "Working", MinInterval, "Medium", <<>>, save_ok)
    \/ \E asset_id \in AssetIds(df), save_ok \in BOOLEAN :
        \E notes \in {<<>>, Device(asset_id).Notes} :
          PageRenders /\ UpdateDevice(asset_id, "XRay", "Broken", "Low", UpcomingDays, notes, save_ok)
    \/ \E asset_id \in AssetIds(df), confirmed \in BOOLEAN, save_ok \in BOOLEAN :
          PageRenders /\ DeleteDevice(asset_id, confirmed, save_ok)
    \/ \E asset_id \in AssetIds(df), save_ok \in BOOLEAN :
          PageRenders /\ LogMaintenance(asset_id, 0, "periodic", "UnderMaintenance", UpcomingDays, save_ok)
    \/ \E selected_equipment \in UniqueEquipmentNames(df), save_ok \in BOOLEAN :
          loaded /\ ApplyInterval(selected_equipment, MinInterval, save_ok)

SpecSession == InitSession /\ [][NextSession]_vars

----------------------------------------------------------------------------
(* The notes of a record under edits and maintenance logs *)

IsPrefix(s, t) == Len(s) <= Len(t) /\ SubSeq(t, 1, Len(s)) = s

EditStep ==
    /\ ops' = ops + 1
    /\ form'.name = "edit_device_form"
    /\ form'.button = "update"

LogStep == ops' = ops + 1 /\ form'.name = "maintenance_log_form"

NotesBefore == df[IndexOf(df, form'.asset_id)].Notes

NotesAfter == df'[IndexOf(df', form'.asset_id)].Notes

OtherNotesKept ==
    /\ Len(df') = Len(df)
    /\ \A i \in 1..Len(df) :
          df[i].AssetID # form'.asset_id => df'[i].Notes = df[i].Notes

\* C16 as stated: after an edit or a maintenance log of a record, its notes
\* have its earlier notes as a prefix.
C16_NotesAreAppendOnly ==
    [][(EditStep \/ LogStep) => IsPrefix(NotesBefore, NotesAfter)]_vars

\* C16, amended: a maintenance log appends exactly one line, stamped with the
\* maintenance date of the form, to the record's earlier notes, which stay as
\* a prefix; an edit replaces the notes by the content of the form's notes
\* field; neither touches the notes of another record.
C16_LogAppendsEditReplaces ==
    [][/\ LogStep =>
            /\ NotesAfter = NotesBefore \o <<[date |-> form'.maintenance_date,
                                              text |-> form'.maintenance_type]>>
            /\ IsPrefix(NotesBefore, NotesAfter)
            /\ OtherNotesKept
       /\ EditStep => NotesAfter = form'.notes /\ OtherNotesKept]_vars

\* a maintenance log has just added a second line to a record's notes
C16_Witness ==
    /\ form.name = "maintenance_log_form"
    /\ form.asset_id \in AssetIds(df)
    /\ Len(Device(form.asset_id).Notes) = 2
    /\ Device(form.asset_id).Notes[2].date = form.maintenance_date

----------------------------------------------------------------------------
(* Failures of saving, restoring and loading, under SpecSession *)

\* the workbook f holds exactly the rows of d, cell by cell
Persisted(f, d) ==
    /\ Len(f.rows) = Len(d)
    /\ \A i \in 1..Len(d) : \A c \in DOMAIN f.rows[i] : f.rows[i][c] = d[i][c]

\* a step in which a form that changes the DataFrame was submitted
MutatingStep ==
    /\ ops' = ops + 1
    /\ \/ /\ form'.name = "add_device_form"
          /\ form'.equipment_name # "" /\ form'.center # "" /\ form'.department # ""
       \/ form'.name = "edit_device_form" /\ form'.button = "update"
       \/ form'.name = "edit_device_form" /\ form'.button = "delete" /\ form'.confirmed
       \/ form'.name = "maintenance_log_form"
       \/ form'.name = "apply_interval"

\* the change the form submitted in this step asks for is in the DataFrame
MutationKept ==
    /\ form'.name = "add_device_form" =>
          /\ Len(df') = Len(df) + 1
          /\ SubSeq(df', 1, Len(df)) = df
          /\ df'[Len(df')].EquipmentName = form'.equipment_name
    /\ (form'.name = "edit_device_form" /\ form'.button = "update") =>
          LET r == RowOf(df', form'.asset_id)
          IN /\ r.EquipmentName = form'.equipment_name
             /\ r.DeviceStatus = form'.device_status
             /\ r.Priority = form'.priority
             /\ r.IntervalDays = form'.maintenance_interval
             /\ r.Notes = form'.notes
    /\ (form'.name = "edit_device_form" /\ form'.button = "delete") =>
          /\ form'.asset_id \notin AssetIds(df')
          /\ Len(df') = Len(df) - 1
    /\ form'.name = "maintenance_log_form" =>
          LET r == RowOf(df', form'.asset_id)
          IN /\ r.LastMaintenance = form'.maintenance_date * TicksPerDay
             /\ r.NextMaintenance
                  = (form'.maintenance_date + form'.next_maintenance_interval) * TicksPerDay
             /\ r.DeviceStatus = form'.device_status_after
             /\ r.IntervalDays = form'.next_maintenance_interval
    /\ form'.name = "apply_interval" =>
          /\ Len(df') = Len(df)
          /\ \A i \in 1..Len(df') :
                df'[i].EquipmentName = form'.selected_equipment
                    => df'[i].IntervalDays = form'.new_interval

RestoreStep == ops' = ops + 1 /\ form'.name = "restore"

\* C12: a restore puts the uploaded sheet's rows in the DataFrame when the
\* upload parses, and only then; when it does not parse the DataFrame is
\* exactly what it was and an error is on screen.
C12_RestoreIsAllOrNothing ==
    [][RestoreStep =>
          /\ form'.uploaded.parses =>
                /\ Len(df') = Len(form'.uploaded.rows)
                /\ \A i \in 1..Len(df') :
                      /\ df'[i].AssetID = form'.uploaded.rows[i].AssetID
                      /\ df'[i].NextMaintenance = form'.uploaded.rows[i].NextMaintenance
                      /\ df'[i].IntervalDays = form'.uploaded.rows[i].IntervalDays
                /\ msg'.level = "success"
          /\ ~form'.uploaded.parses => (df' = df /\ msg'.level = "error")
          /\ df' # df => form'.uploaded.parses
    ]_vars

\* C12 witness: an upload that is no workbook was refused: the error is on
\* screen and the DataFrame still holds the two records loaded.
C12_Witness ==
    /\ form.name = "restore"
    /\ ~form.uploaded.parses
    /\ msg.level = "error"
    /\ loaded
    /\ Len(df) = 2
    /\ HasCenterColumns(df)

\* C18 as stated: a session whose load failed holds no DataFrame, and the
\* load is tried again at the next user action: when the workbook is
\* readable by then, the load_data call main makes gives its DataFrame.
C18_FailedLoadIsRetried ==
    ~loaded =>
        /\ df = <<>>
        /\ Readable(file) => CachedLoad(cache, file) = [ok |-> TRUE, df |-> load_data(file)]

\* a session was opened in this step
StartStep == ops' = ops + 1 /\ form' = NoForm

\* C19 as stated: whenever a session starts, its DataFrame is what the
\* workbook holds at that moment, every saved change of an earlier session
\* included.
C19_NewSessionReadsTheWorkbook ==
    [][(StartStep /\ Readable(file')) =>
          /\ loaded'
          /\ Persisted(file', df')
    ]_vars

\* C20 as stated: every record of the DataFrame carries the center code its
\* asset id begins with and the center name CENTERS_DICT gives for it.
C20_CenterColumnsFollowTheAssetId ==
    loaded =>
        \A i \in 1..Len(df) :
            /\ df[i].CenterCode = join(FirstTwo(split(df[i].AssetID)))
            /\ df[i].CenterName = CENTERS_DICT(df[i].CenterCode)

----------------------------------------------------------------------------
(* The workbook against the DataFrame across the operations *)

\* an add, edit, delete, maintenance log or bulk interval whose save went
\* through, or a restore from a backup
UnfailedOperationStep ==
    \/ MutatingStep /\ msg'.level = "success"
    \/ RestoreStep

\* C21 as stated: as long as no save fails, the workbook holds the records
\* of the DataFrame (the center columns aside): an operation that starts from
\* a workbook holding the DataFrame's records, and whose save does not fail,
\* ends with the workbook holding the DataFrame's records; add, edit,
\* maintenance log, bulk interval, delete and restore are the operations.
C21_WorkbookHoldsTheDataFrame ==
    [][(loaded /\ Persisted(file, df) /\ UnfailedOperationStep)
          => Persisted(file', df')]_vars

----------------------------------------------------------------------------
(* What an edit and a maintenance log leave alone *)

\* C22: an edit or a maintenance log of asset id A keeps the number of
\* records, leaves every other record exactly as it was, and leaves A's
\* asset id, center and installation date as they were; an edit also leaves
\* A's last and next maintenance dates as they were.
C22_EditAndLogTouchOneRecord ==
    [][(EditStep \/ LogStep) =>
          LET idx == IndexOf(df, form'.asset_id)
          IN /\ Len(df') = Len(df)
             /\ \A j \in 1..Len(df) : j # idx => df'[j] = df[j]
             /\ df'[idx].AssetID = df[idx].AssetID
             /\ df'[idx].CenterCode = df[idx].CenterCode
             /\ df'[idx].CenterName = df[idx].CenterName
             /\ df'[idx].InstallationDate = df[idx].InstallationDate
             /\ EditStep =>
                   /\ df'[idx].LastMaintenance = df[idx].LastMaintenance
                   /\ df'[idx].NextMaintenance = df[idx].NextMaintenance
    ]_vars

\* C22 witness: an edit has just changed the name and the interval of the
\* first record, which has a next maintenance date, next to a second record
\* that still has its own name.
C22_Witness ==
    /\ form.name = "edit_device_form"
    /\ form.button = "update"
    /\ form.asset_id = KHL_001
    /\ Len(df) >= 2
    /\ df[1].AssetID = KHL_001
    /\ df[1].EquipmentName = "XRay"
    /\ df[1].IntervalDays = UpcomingDays
    /\ notna(df[1].NextMaintenance)
    /\ df[2].EquipmentName = "ECG"

=============================================================================
